---- MODULE Spec2Model ----
(***************************************************************************)
(* Model of the pull-request reviewer in src/src/review.py: the unified    *)
(* diff parser, the legal anchor lines, the comment quality filter, the    *)
(* searches of a gather and the bounded context-gathering loop of          *)
(* review_pr with its publishing step.                                     *)
(*                                                                         *)
(* Specifications: SpecDiff (the parser, a line per step), SpecReparse     *)
(* (calls of the parser, one after the other), SpecValidate (one call of   *)
(* validate_comment_quality), SpecSearch (one gather on a tree),           *)
(* SpecGather (the gathering rounds) and Spec (review_pr).                 *)
(*                                                                         *)
(* Optional values (Python None) are sequences of length 0 or 1.           *)
(* A text is a sequence of atoms (markers, words, runs of characters).     *)
(***************************************************************************)
EXTENDS Integers, Sequences, FiniteSets, TLC

VARIABLES
    \* parse_diff_with_line_numbers, one loop iteration per step
    dlines,          \* the lines of the diff text read so far
    file_changes,    \* dict: file path -> list of hunks
    current_file,    \* None or the path of the last file boundary
    current_hunk,    \* None or the hunk object lines are appended to
    parse_returns,   \* the calls of the parser that returned: argument, result
    \* review_pr
    pc,                   \* position in review_pr
    diff,                 \* the text get_diff returns
    max_recursion,
    iteration,
    all_context,          \* dict: context key -> evidence
    final_line_comments,  \* list of candidate comments
    final_review,         \* None while unassigned, else the summary text
    messages,             \* the transcript sent to the model
    response,             \* None or the last reply of a structured round
    calls,                \* the collaborator calls made so far, in order
    final_check,          \* None or the validation applied to the comments
                          \* extracted from the final free-text answer
    posts,                \* the POST requests sent to the forge, in order
    \* validate_comment_quality, one call per step
    v_comment,       \* the comment text of the call
    v_pattern,       \* the pattern argument of the call
    v_result,        \* None or the value the call returned
    v_again,         \* None or the value the call of post_review_comments
                     \* returned for a comment that was kept
    \* the gather of a round and its searches
    repo,            \* None or the checked-out tree the searches run on
    current_context  \* None or the result of the round's gather

pvars == <<dlines, file_changes, current_file, current_hunk, parse_returns>>

rvars == <<pc, diff, max_recursion, iteration, all_context,
           final_line_comments, final_review, messages, response, calls,
           final_check, posts>>

qvars == <<v_comment, v_pattern, v_result, v_again>>

svars == <<repo, current_context>>

vars == <<dlines, file_changes, current_file, current_hunk, parse_returns,
          pc, diff, max_recursion, iteration, all_context,
          final_line_comments, final_review, messages, response, calls,
          final_check, posts,
          v_comment, v_pattern, v_result, v_again, repo, current_context>>

----------------------------------------------------------------------------
(* Bounds *)

MaxDiffLines == 5

\* max_recursion ranges over 0..MaxBudget
MaxBudget == 3

\* the comments given to validate_comment_quality have at most this many atoms
MaxTextAtoms == 3

\* the diff texts parsed more than once have at most this many lines
MaxReparseLines == 3

----------------------------------------------------------------------------
(* Generic helpers: Python dicts, lists and optional values *)

None == <<>>

Some(x) == <<x>>

EmptyDict == <<>>

\* mutant: a key that is already present keeps its value
DictUpdateKeepOld(d, e) ==
    [x \in (DOMAIN d) \cup (DOMAIN e) |-> IF x \in DOMAIN d THEN d[x] ELSE e[x]]

\* d.update(e)
DictUpdate(d, e) ==
    [x \in (DOMAIN d) \cup (DOMAIN e) |-> IF x \in DOMAIN e THEN e[x] ELSE d[x]]

DictPut(d, k, v) == [x \in (DOMAIN d) \cup {k} |-> IF x = k THEN v ELSE d[x]]

\* str.startswith on a sequence of atoms
StartsWith(text, prefix) ==
    /\ Len(prefix) <= Len(text)
    /\ SubSeq(text, 1, Len(prefix)) = prefix

\* len([l for l in s if l["type"] in kinds])
RECURSIVE SelectLen(_, _)
SelectLen(s, kinds) ==
    IF s = <<>> THEN 0
    ELSE (IF Head(s).type \in kinds THEN 1 ELSE 0) + SelectLen(Tail(s), kinds)

----------------------------------------------------------------------------
(* Lines of a diff text.  `text` is the line as atoms; `nums` are the      *)
(* values of the digit runs that stand at the atom "-d +d @@".             *)

DiffLine(text, nums) == [text |-> text, nums |-> nums]

FileLine(path) == DiffLine(<<"diff --git", "a/", path, "b/", path>>, <<>>)

BadFileLine == DiffLine(<<"diff --git", "x">>, <<>>)

HunkLine(old, new) == DiffLine(<<"@@", "-d +d @@">>, <<old, new>>)

BadHunkLine == DiffLine(<<"@@", "x">>, <<>>)

AddLine == DiffLine(<<"+", "x">>, <<>>)

RemLine == DiffLine(<<"-", "x">>, <<>>)

CtxLine == DiffLine(<<" ", "x">>, <<>>)

\* an added line whose content starts with "++", or the "+++ b/path" line
PlusPlusPlusLine == DiffLine(<<"+", "+", "+", "x">>, <<>>)

\* a removed line whose content starts with "--", or the "--- a/path" line
MinusMinusMinusLine == DiffLine(<<"-", "-", "-", "x">>, <<>>)

\* "index 1a2b..", "\ No newline at end of file", an empty line
OtherLine == DiffLine(<<"x">>, <<>>)

\* re.search(r"diff --git a/(.*?) b/(.*?)$", line): None or group(2)
FileRegex(line) ==
    IF /\ Len(line.text) = 5
       /\ line.text[1] = "diff --git"
       /\ line.text[2] = "a/"
       /\ line.text[4] = "b/"
    THEN Some(line.text[5])
    ELSE None

\* re.search(r"@@ -(\d+),?\d* \+(\d+),?\d* @@", line): None or the groups
HunkRegex(line) ==
    IF /\ Len(line.text) >= 2
       /\ line.text[1] = "@@"
       /\ line.text[2] = "-d +d @@"
       /\ Len(line.nums) = 2
    THEN Some([old_start |-> line.nums[1], new_start |-> line.nums[2]])
    ELSE None

\* truth value of `current_file`: None and the empty string are false
FileTruthy(f) == f # None /\ f[1] # ""

----------------------------------------------------------------------------
(* parse_diff_with_line_numbers.  A parser state is                        *)
(*   fc  : file_changes                                                    *)
(*   cf  : current_file                                                    *)
(*   ch  : current_hunk, None or [hunk, at]; `hunk` is the hunk object and *)
(*         `at` is None when no list of fc holds the object any more, or   *)
(*         <<path, index>> of the object inside fc.                        *)

ParserInit == [fc |-> EmptyDict, cf |-> None, ch |-> None]

\* current_hunk["lines"].append(entry): the object is shared with fc
AppendToHunk(st, entry) ==
    LET h == st.ch[1].hunk
        h2 == [h EXCEPT !.lines = Append(@, entry)]
        at == st.ch[1].at
    IN  [st EXCEPT
            !.ch = Some([hunk |-> h2, at |-> at]),
            !.fc = IF at = None THEN @
                   ELSE [@ EXCEPT ![at[1]] = [@ EXCEPT ![at[2]] = h2]]]

\* mutant: every recorded line advances the counter, removed ones too
NewLineNumCountingRemoved(hunk) == hunk.new_start + Len(hunk.lines)

\* new_start + len([l for l in lines if l["type"] in ["+", " "]])
NewLineNum(hunk) == hunk.new_start + SelectLen(hunk.lines, {"+", " "})

\* the branch of a line starting with "diff --git"
OnFileLine(st, line) ==
    LET m == FileRegex(line) IN
    IF m = None THEN st
    ELSE [st EXCEPT
            !.cf = m,
            !.fc = DictPut(@, m[1], <<>>),
            \* a hunk object of the replaced list stays referenced
            !.ch = IF st.ch # None /\ st.ch[1].at # None /\ st.ch[1].at[1] = m[1]
                   THEN Some([st.ch[1] EXCEPT !.at = None])
                   ELSE @]

\* the branch of a line starting with "@@"
OnHunkLine(st, line) ==
    LET m == HunkRegex(line) IN
    IF m # None /\ FileTruthy(st.cf)
    THEN LET f == st.cf[1]
             h == [old_start |-> m[1].old_start,
                   new_start |-> m[1].new_start,
                   lines |-> <<>>]
         IN [st EXCEPT
                !.fc = [@ EXCEPT ![f] = Append(@, h)],
                !.ch = Some([hunk |-> h, at |-> <<f, Len(st.fc[f]) + 1>>])]
    ELSE st

\* the branch of every other line while a hunk is open
OnBodyLine(st, line) ==
    IF StartsWith(line.text, <<"+">>) /\ ~StartsWith(line.text, <<"+", "+", "+">>)
    THEN AppendToHunk(st, [type |-> "+", content |-> Tail(line.text),
                           line_number |-> Some(NewLineNum(st.ch[1].hunk))])
    ELSE IF StartsWith(line.text, <<"-">>) /\ ~StartsWith(line.text, <<"-", "-", "-">>)
    THEN AppendToHunk(st, [type |-> "-", content |-> Tail(line.text),
                           line_number |-> None])
    ELSE IF StartsWith(line.text, <<" ">>)
    THEN AppendToHunk(st, [type |-> " ", content |-> Tail(line.text),
                           line_number |-> Some(NewLineNum(st.ch[1].hunk))])
    ELSE st

\* the body of `for line in diff.split("\n")`
ParseLine(st, line) ==
    IF StartsWith(line.text, <<"diff --git">>) THEN OnFileLine(st, line)
    ELSE IF StartsWith(line.text, <<"@@">>) THEN OnHunkLine(st, line)
    ELSE IF st.ch # None /\ FileTruthy(st.cf) THEN OnBodyLine(st, line)
    ELSE st

RECURSIVE ParseFrom(_, _)
ParseFrom(st, lines) ==
    IF lines = <<>> THEN st ELSE ParseFrom(ParseLine(st, Head(lines)), Tail(lines))

parse_diff_with_line_numbers(diff_text) == ParseFrom(ParserInit, diff_text).fc

\* the "line_number" values of the lines of the given types in a file's hunks
LineNumbersOf(hunks, kinds) ==
    UNION {{hunks[i].lines[j].line_number[1] :
                j \in {k \in DOMAIN hunks[i].lines :
                          /\ hunks[i].lines[k].type \in kinds
                          /\ hunks[i].lines[k].line_number # None}} :
           i \in DOMAIN hunks}

\* mutant: context lines are collected as well as added lines
get_valid_diff_lines_with_context(diff_text) ==
    LET fc == parse_diff_with_line_numbers(diff_text) IN
    [f \in DOMAIN fc |-> LineNumbersOf(fc[f], {"+", " "})]

get_valid_diff_lines(diff_text) ==
    LET fc == parse_diff_with_line_numbers(diff_text) IN
    [f \in DOMAIN fc |-> LineNumbersOf(fc[f], {"+"})]

----------------------------------------------------------------------------
(* Comment texts and validate_comment_quality.  An atom is a word, a       *)
(* phrase, a marker or a run of filler characters; no phrase or marker     *)
(* the code looks for spans two atoms.  Korean phrases are written in      *)
(* ASCII with the prefix "ko:"; the backtick is the atom "<tick>" and the    *)
(* triple backtick is the atom "<fence>".                                  *)

\* number of characters of an atom
AtomLen(a) ==
    CASE a = " " -> 1
      [] a \in {"<tick>", ":", "=", "(", ")"} -> 1
      [] a = "<fence>" -> 3
      [] a \in {"bug", "Bug", "foo", "Foo"} -> 3
      [] a \in {"error"} -> 5
      [] a \in {"unclear", "Unclear"} -> 7
      [] a \in {"needs verification", "Needs Verification"} -> 18
      [] a = "looks fine" -> 10
      [] a = "w9" -> 9
      [] a = "w10" -> 10
      [] a = "w20" -> 20
      [] a = "w30" -> 30
      [] a = "w47" -> 47
      [] OTHER -> 6

\* str.lower() of an atom
AtomLower(a) ==
    CASE a = "Bug" -> "bug"
      [] a = "Foo" -> "foo"
      [] a = "Unclear" -> "unclear"
      [] a = "Needs Verification" -> "needs verification"
      [] a = "STRICT" -> "strict"
      [] OTHER -> a

\* the strings of interest that are substrings of an atom
AtomHas(a) == IF a = "<fence>" THEN {"<fence>", "<tick>"} ELSE {a}

\* comment.lower()
TextLower(text) == [i \in DOMAIN text |-> AtomLower(text[i])]

\* the test (s in text)
InText(s, text) == \E i \in DOMAIN text : s \in AtomHas(text[i])

\* comment.strip()
RECURSIVE LStrip(_)
LStrip(text) ==
    IF text # <<>> /\ Head(text) = " " THEN LStrip(Tail(text)) ELSE text

RECURSIVE RStrip(_)
RStrip(text) ==
    IF text # <<>> /\ text[Len(text)] = " "
    THEN RStrip(SubSeq(text, 1, Len(text) - 1))
    ELSE text

Strip(text) == RStrip(LStrip(text))

\* len(text)
RECURSIVE TextLen(_)
TextLen(text) ==
    IF text = <<>> THEN 0 ELSE AtomLen(Head(text)) + TextLen(Tail(text))

vague_phrases ==
    <<"ko:hwagin-i pilyohamnida",
      "requires checking",
      "needs verification",
      "ko:geomto-ga pilyohamnida",
      "should be verified",
      "might need",
      "ko:hwaginhaeya hamnida",
      "should check",
      "consider checking",
      "ko:myeonghwakhaji aneum",
      "unclear",
      "not clear",
      "ko:geomjeung pilyo",
      "verification needed",
      "needs review",
      "ko:hwaginhae juseyo",
      "please check",
      "please verify",
      "ko:salpyeobwaya",
      "should examine",
      "should investigate">>

issue_words ==
    <<"ko:beogeu", "bug", "ko:oryu", "error",
      "ko:boan", "security", "ko:seongneung", "performance">>

\* the three strict_requirements, as a count of those that hold
StrictSignals(comment) ==
    (IF \E m \in {"<fence>", "<tick>"} : InText(m, comment) THEN 1 ELSE 0)
    + (IF \E i \in DOMAIN issue_words : InText(issue_words[i], TextLower(comment))
       THEN 1 ELSE 0)
    + (IF TextLen(Strip(comment)) > 50 THEN 1 ELSE 0)

\* mutant: the STRICT sentinel is not recognised
validate_comment_quality_no_strict(comment, pattern) ==
    /\ \A i \in DOMAIN vague_phrases :
          ~InText(AtomLower(vague_phrases[i]), TextLower(comment))
    /\ TextLen(Strip(comment)) >= 20

\* mutant: the search pattern is compared as written, not in lower case
validate_comment_quality_pattern_as_written(comment, pattern) ==
    /\ \A i \in DOMAIN vague_phrases :
          ~InText(AtomLower(vague_phrases[i]), TextLower(comment))
    /\ ~(TextLen(Strip(comment)) < 20)
    /\ pattern = "STRICT" => ~(StrictSignals(comment) < 2)
    /\ (/\ pattern # ""
        /\ pattern # "STRICT"
        /\ ~InText(pattern, TextLower(comment)))
          => \E m \in {"<fence>", "<tick>", ":", "=", "(", ")"} : InText(m, comment)

\* mutant: the minimum length is tested on the comment as written
validate_comment_quality_unstripped(comment, pattern) ==
    /\ \A i \in DOMAIN vague_phrases :
          ~InText(AtomLower(vague_phrases[i]), TextLower(comment))
    /\ ~(TextLen(comment) < 20)
    /\ pattern = "STRICT" => ~(StrictSignals(comment) < 2)
    /\ (/\ pattern # ""
        /\ pattern # "STRICT"
        /\ ~InText(AtomLower(pattern), TextLower(comment)))
          => \E m \in {"<fence>", "<tick>", ":", "=", "(", ")"} : InText(m, comment)

\* mutant: the hedge phrases are looked for in the comment as written
validate_comment_quality_case_sensitive(comment, pattern) ==
    /\ \A i \in DOMAIN vague_phrases : ~InText(vague_phrases[i], comment)
    /\ ~(TextLen(Strip(comment)) < 20)
    /\ pattern = "STRICT" => ~(StrictSignals(comment) < 2)
    /\ (/\ pattern # ""
        /\ pattern # "STRICT"
        /\ ~InText(AtomLower(pattern), TextLower(comment)))
          => \E m \in {"<fence>", "<tick>", ":", "=", "(", ")"} : InText(m, comment)

\* mutant: Strict mode decides on its signals alone, before the length test
validate_comment_quality_strict_first(comment, pattern) ==
    /\ \A i \in DOMAIN vague_phrases :
          ~InText(AtomLower(vague_phrases[i]), TextLower(comment))
    /\ IF pattern = "STRICT" THEN ~(StrictSignals(comment) < 2)
       ELSE ~(TextLen(Strip(comment)) < 20)
    /\ (/\ pattern # ""
        /\ pattern # "STRICT"
        /\ ~InText(AtomLower(pattern), TextLower(comment)))
          => \E m \in {"<fence>", "<tick>", ":", "=", "(", ")"} : InText(m, comment)

\* `pattern` is "" (the default), the sentinel "STRICT" or a search pattern
validate_comment_quality(comment, pattern) ==
    /\ \A i \in DOMAIN vague_phrases :
          ~InText(AtomLower(vague_phrases[i]), TextLower(comment))
    /\ ~(TextLen(Strip(comment)) < 20)
    /\ pattern = "STRICT" => ~(StrictSignals(comment) < 2)
    /\ (/\ pattern # ""
        /\ pattern # "STRICT"
        /\ ~InText(AtomLower(pattern), TextLower(comment)))
          => \E m \in {"<fence>", "<tick>", ":", "=", "(", ")"} : InText(m, comment)

----------------------------------------------------------------------------
(* The diff parser as a state machine: one line of the text per step *)

DiffAlphabet ==
    {FileLine("a.py"), FileLine("b.py"), BadFileLine,
     HunkLine(1, 10), HunkLine(1, 11), BadHunkLine,
     AddLine, RemLine, CtxLine, PlusPlusPlusLine, MinusMinusMinusLine,
     OtherLine}

ParserState == [fc |-> file_changes, cf |-> current_file, ch |-> current_hunk]

SetParser(st) ==
    /\ file_changes' = st.fc
    /\ current_file' = st.cf
    /\ current_hunk' = st.ch

ParserIdle ==
    /\ dlines = <<>>
    /\ file_changes = EmptyDict
    /\ current_file = None
    /\ current_hunk = None
    /\ parse_returns = <<>>

ReviewIdle ==
    /\ pc = "idle"
    /\ diff = <<>>
    /\ max_recursion = 0
    /\ iteration = 0
    /\ all_context = EmptyDict
    /\ final_line_comments = <<>>
    /\ final_review = None
    /\ messages = <<>>
    /\ response = None
    /\ calls = <<>>
    /\ final_check = None
    /\ posts = <<>>

ValidatorIdle ==
    /\ v_comment = <<>>
    /\ v_pattern = ""
    /\ v_result = None
    /\ v_again = None

\* no tree is looked at, nothing is gathered
SearchIdle == repo = None /\ current_context = None

DiffInit == ParserIdle /\ ReviewIdle /\ ValidatorIdle /\ SearchIdle

ReadFileLine ==
    \E line \in DiffAlphabet :
        /\ Len(dlines) < MaxDiffLines
        /\ StartsWith(line.text, <<"diff --git">>)
        /\ dlines' = Append(dlines, line)
        /\ SetParser(ParseLine(ParserState, line))
        /\ UNCHANGED parse_returns
        /\ UNCHANGED rvars
        /\ UNCHANGED <<qvars, svars>>

ReadHunkLine ==
    \E line \in DiffAlphabet :
        /\ Len(dlines) < MaxDiffLines
        /\ StartsWith(line.text, <<"@@">>)
        /\ dlines' = Append(dlines, line)
        /\ SetParser(ParseLine(ParserState, line))
        /\ UNCHANGED parse_returns
        /\ UNCHANGED rvars
        /\ UNCHANGED <<qvars, svars>>

ReadBodyLine ==
    \E line \in DiffAlphabet :
        /\ Len(dlines) < MaxDiffLines
        /\ ~StartsWith(line.text, <<"diff --git">>)
        /\ ~StartsWith(line.text, <<"@@">>)
        /\ dlines' = Append(dlines, line)
        /\ SetParser(ParseLine(ParserState, line))
        /\ UNCHANGED parse_returns
        /\ UNCHANGED rvars
        /\ UNCHANGED <<qvars, svars>>

DiffNext == ReadFileLine \/ ReadHunkLine \/ ReadBodyLine

SpecDiff == DiffInit /\ [][DiffNext]_vars

----------------------------------------------------------------------------
(* Calls of parse_diff_with_line_numbers one after the other in one        *)
(* process: the diff text, another text, the diff text again.  The parser  *)
(* variables hold the locals of the last call.                             *)

ReparseTexts == UNION {[1..n -> DiffAlphabet] : n \in 0..MaxReparseLines}

\* texts parsed between the two calls on the diff text
OtherTexts ==
    {<<FileLine("z.py"), HunkLine(1, 10), AddLine>>,
     <<FileLine("b.py"), HunkLine(1, 11), CtxLine, RemLine>>}

\* mutant: the locals are module-level and keep the values of the last call
EntryLocalsKept(old) == old

\* lines 148-150: the locals are assigned anew at every call
EntryLocals(old) == ParserInit

ReparseInit ==
    /\ ParserIdle
    /\ ValidatorIdle
    /\ SearchIdle
    /\ pc = "idle"
    /\ diff \in ReparseTexts
    /\ max_recursion = 0
    /\ iteration = 0
    /\ all_context = EmptyDict
    /\ final_line_comments = <<>>
    /\ final_review = None
    /\ messages = <<>>
    /\ response = None
    /\ calls = <<>>
    /\ final_check = None
    /\ posts = <<>>

\* one call: lines 148-191
ParseCall(diff_text) ==
    LET st == ParseFrom(EntryLocals(ParserState), diff_text) IN
    /\ dlines' = diff_text
    /\ SetParser(st)
    /\ parse_returns' = Append(parse_returns, [arg |-> diff_text, result |-> st.fc])
    /\ UNCHANGED <<rvars, qvars, svars>>

ParseFirst == Len(parse_returns) = 0 /\ ParseCall(diff)

ParseOther == Len(parse_returns) = 1 /\ \E t \in OtherTexts : ParseCall(t)

ParseAgain == Len(parse_returns) = 2 /\ ParseCall(diff)

ReparseNext == ParseFirst \/ ParseOther \/ ParseAgain

SpecReparse == ReparseInit /\ [][ReparseNext]_vars

----------------------------------------------------------------------------
(* validate_comment_quality applied to bounded texts: the call is made     *)
(* with a comment of at most MaxTextAtoms atoms and a pattern argument.    *)

TextAtoms ==
    {" ", "<tick>", "<fence>", ":", "bug", "Bug", "foo", "Foo", "Unclear",
     "needs verification", "w9", "looks fine", "w20", "w30", "w47"}

\* the default, the sentinel, and a search pattern in two spellings
PatternArgs == {"", "STRICT", "foo", "Foo"}

Texts(n) == UNION {[1..k -> TextAtoms] : k \in 0..n}

ValidateInit ==
    /\ ParserIdle
    /\ ReviewIdle
    /\ SearchIdle
    /\ v_comment \in Texts(MaxTextAtoms)
    /\ v_pattern \in PatternArgs
    /\ v_result = None
    /\ v_again = None

\* validate_comment_quality(comment) of lines 372, 745
ValidateNormal ==
    /\ v_result = None
    /\ v_pattern = ""
    /\ v_result' = Some(validate_comment_quality(v_comment, v_pattern))
    /\ UNCHANGED <<v_comment, v_pattern, v_again>>
    /\ UNCHANGED <<pvars, rvars, svars>>

\* validate_comment_quality(comment, "STRICT") of lines 785-787
ValidateStrict ==
    /\ v_result = None
    /\ v_pattern = "STRICT"
    /\ v_result' = Some(validate_comment_quality(v_comment, v_pattern))
    /\ UNCHANGED <<v_comment, v_pattern, v_again>>
    /\ UNCHANGED <<pvars, rvars, svars>>

\* a call with a search pattern as second argument
ValidatePattern ==
    /\ v_result = None
    /\ v_pattern \notin {"", "STRICT"}
    /\ v_result' = Some(validate_comment_quality(v_comment, v_pattern))
    /\ UNCHANGED <<v_comment, v_pattern, v_again>>
    /\ UNCHANGED <<pvars, rvars, svars>>

\* line 372: post_review_comments validates a comment that review_pr kept
\* at line 745 or at lines 785-787 once more, with the default pattern
ValidateAgain ==
    /\ v_result = Some(TRUE)
    /\ v_pattern \in {"", "STRICT"}
    /\ v_again = None
    /\ v_again' = Some(validate_comment_quality(v_comment, ""))
    /\ UNCHANGED <<v_comment, v_pattern, v_result>>
    /\ UNCHANGED <<pvars, rvars, svars>>

ValidateNext == ValidateNormal \/ ValidateStrict \/ ValidatePattern \/ ValidateAgain

SpecValidate == ValidateInit /\ [][ValidateNext]_vars

----------------------------------------------------------------------------
(* Model replies and parse_context_requests *)

\* a context request after req.get("pattern", "") and req.get("reason", "")
Request(pattern) == [pattern |-> pattern, reason |-> <<"why">>]

Comment(file, line, text) == [file |-> file, line |-> line, comment |-> text]

\* a reply that json.loads turns into a dict, after the .get defaults
ObjectReply(nc, reqs, review, lcs) ==
    [form |-> "object", needs_context |-> nc, context_requests |-> reqs,
     review |-> review, line_comments |-> lcs, lines |-> <<>>]

\* a reply that json.loads accepts and that is no dict ([], 42, "x", null)
NonObjectReply ==
    [form |-> "nonobject", needs_context |-> FALSE, context_requests |-> <<>>,
     review |-> "", line_comments |-> <<>>, lines |-> <<>>]

\* a reply that json.loads rejects; `lines` is response.split("\n")
TextReply(lines) ==
    [form |-> "text", needs_context |-> FALSE, context_requests |-> <<>>,
     review |-> "", line_comments |-> <<>>, lines |-> lines]

\* atoms of a reply line that start with the character "-"
DashAtoms == {"- pattern:", "- reason:", "- other"}

\* line.replace(marker, "").strip().strip('"')
FieldValue(line, marker) ==
    LET rest == Strip(SelectSeq(line, LAMBDA a : a # marker))
        q1 == IF rest # <<>> /\ Head(rest) = "quote" THEN Tail(rest) ELSE rest
    IN  IF q1 # <<>> /\ q1[Len(q1)] = "quote"
        THEN SubSeq(q1, 1, Len(q1) - 1) ELSE q1

\* state of the fallback scan: requests, current_request, in_context_request
FallbackInit == [requests |-> <<>>, current |-> EmptyDict, inside |-> FALSE]

FallbackFlush(st) ==
    IF st.current # EmptyDict /\ "pattern" \in DOMAIN st.current
    THEN Append(st.requests,
                [pattern |-> st.current["pattern"],
                 reason |-> IF "reason" \in DOMAIN st.current
                            THEN st.current["reason"] ELSE <<>>])
    ELSE st.requests

\* the body of `for line in lines` of the fallback parser
FallbackLine(st, raw) ==
    LET line == Strip(raw) IN
    IF line = <<"CONTEXT_REQUEST:">>
    THEN [requests |-> FallbackFlush(st), current |-> EmptyDict, inside |-> TRUE]
    ELSE IF st.inside /\ StartsWith(line, <<"- pattern:">>)
    THEN [st EXCEPT !.current =
            DictPut(@, "pattern", FieldValue(line, "- pattern:"))]
    ELSE IF st.inside /\ StartsWith(line, <<"- reason:">>)
    THEN [st EXCEPT !.current =
            DictPut(@, "reason", FieldValue(line, "- reason:"))]
    ELSE IF line # <<>> /\ Head(line) \notin DashAtoms /\ st.inside
    THEN [st EXCEPT !.inside = FALSE]
    ELSE st

RECURSIVE FallbackFrom(_, _)
FallbackFrom(st, lines) ==
    IF lines = <<>> THEN st
    ELSE FallbackFrom(FallbackLine(st, Head(lines)), Tail(lines))

\* the `except json.JSONDecodeError` branch
FallbackParse(lines) == FallbackFlush(FallbackFrom(FallbackInit, lines))

Returned(reqs, review, lcs) ==
    [raised |-> FALSE, context_requests |-> reqs, review |-> review,
     line_comments |-> lcs]

\* an exception other than json.JSONDecodeError leaves the function
Raised ==
    [raised |-> TRUE, context_requests |-> <<>>, review |-> "",
     line_comments |-> <<>>]

\* mutant: the comments of a reply that asks for context are not returned
parse_context_requests_drop_comments(response_text) ==
    IF response_text.form = "object"
    THEN IF ~response_text.needs_context
         THEN Returned(<<>>, response_text.review, response_text.line_comments)
         ELSE Returned(response_text.context_requests, "", <<>>)
    ELSE IF response_text.form = "nonobject" THEN Raised
    ELSE Returned(FallbackParse(response_text.lines), "", <<>>)

\* mutant: the review of a reply that asks for nothing is not returned
parse_context_requests_drop_review(response_text) ==
    IF response_text.form = "object"
    THEN IF ~response_text.needs_context
         THEN Returned(<<>>, "", response_text.line_comments)
         ELSE Returned(response_text.context_requests, "", response_text.line_comments)
    ELSE IF response_text.form = "nonobject" THEN Raised
    ELSE Returned(FallbackParse(response_text.lines), "", <<>>)

\* mutant: requests are returned whatever needs_context says
parse_context_requests_ignore_flag(response_text) ==
    IF response_text.form = "object"
    THEN IF response_text.context_requests = <<>>
         THEN Returned(<<>>, response_text.review, response_text.line_comments)
         ELSE Returned(response_text.context_requests, "", response_text.line_comments)
    ELSE IF response_text.form = "nonobject" THEN Raised
    ELSE Returned(FallbackParse(response_text.lines), "", <<>>)

parse_context_requests(response_text) ==
    IF response_text.form = "object"
    THEN IF ~response_text.needs_context
         THEN Returned(<<>>, response_text.review, response_text.line_comments)
         ELSE Returned(response_text.context_requests, "", response_text.line_comments)
    ELSE IF response_text.form = "nonobject"
    \* response_json.get raises AttributeError, which is not caught
    THEN Raised
    ELSE Returned(FallbackParse(response_text.lines), "", <<>>)

\* the final free-text answer: `block` tells what the fenced json block is
\* ("none": no block, "invalid": json.loads raises, "nonobject": .get raises,
\* "object": a dict), `line_comments` is json_data.get("line_comments", [])
FinalAnswer(block, lcs) == [review |-> "F", block |-> block, line_comments |-> lcs]

extract_line_comments_from_text(answer) ==
    IF answer.block = "object" THEN answer.line_comments ELSE <<>>

----------------------------------------------------------------------------
(* gather_comprehensive_context.  `search` gives the dict each of the four *)
(* searches returns for a pattern: get_function_definition ("definitions"),*)
(* enhanced_search_code_in_repo ("usage", "import") and                    *)
(* search_code_in_repo ("search").                                         *)

\* f"{pattern}{suffix}" with patterns as sequences of atoms
ContextKey(pattern, suffix) ==
    IF suffix = "" THEN pattern ELSE Append(pattern, suffix)

\* mutant: the result of a search is stored whether or not it is empty
PutAlways(ctx, key, found) == DictPut(ctx, key, found)

\* `if definitions:` and the like: an empty result is not stored
PutIfFound(ctx, key, found) ==
    IF found # EmptyDict THEN DictPut(ctx, key, found) ELSE ctx

\* the body of `for req in context_requests`
GatherOne(ctx, req, search) ==
    LET p == req.pattern
        c1 == PutIfFound(ctx, ContextKey(p, "_definitions"), search[<<p, "definitions">>])
        c2 == PutIfFound(c1, ContextKey(p, "_usage"), search[<<p, "usage">>])
        c3 == PutIfFound(c2, ContextKey(p, "_imports"), search[<<p, "import">>])
    IN  PutIfFound(c3, ContextKey(p, ""), search[<<p, "search">>])

RECURSIVE GatherFrom(_, _, _)
GatherFrom(ctx, reqs, search) ==
    IF reqs = <<>> THEN ctx
    ELSE GatherFrom(GatherOne(ctx, Head(reqs), search), Tail(reqs), search)

gather_comprehensive_context(context_requests, search) ==
    GatherFrom(EmptyDict, context_requests, search)

----------------------------------------------------------------------------
(* post_review_comments: the comments sent in the batched review request *)

HasKeys(comment) ==
    /\ "file" \in DOMAIN comment
    /\ "line" \in DOMAIN comment
    /\ "comment" \in DOMAIN comment

\* mutant: the anchor check is left out
ValidCommentsNoAnchorCheck(line_comments, diff_text) ==
    SelectSeq(line_comments,
              LAMBDA c : HasKeys(c) /\ validate_comment_quality(c.comment, ""))

\* mutant: with little context post_review_comments validates in Strict mode
ValidCommentsStrictOnLowContext(line_comments, diff_text) ==
    LET valid_diff_lines ==
            IF diff_text # <<>> THEN get_valid_diff_lines(diff_text) ELSE EmptyDict
    IN  SelectSeq(line_comments,
                  LAMBDA c : /\ HasKeys(c)
                             /\ validate_comment_quality(
                                   c.comment,
                                   IF Cardinality(DOMAIN all_context) < 2
                                   THEN "STRICT" ELSE "")
                             /\ c.file \in DOMAIN valid_diff_lines
                             /\ c.line \in valid_diff_lines[c.file])

\* valid_comments of post_review_comments, before they are put in the request
ValidComments(line_comments, diff_text) ==
    LET valid_diff_lines ==
            IF diff_text # <<>> THEN get_valid_diff_lines(diff_text) ELSE EmptyDict
    IN  SelectSeq(line_comments,
                  LAMBDA c : /\ HasKeys(c)
                             /\ validate_comment_quality(c.comment, "")
                             /\ c.file \in DOMAIN valid_diff_lines
                             /\ c.line \in valid_diff_lines[c.file])

----------------------------------------------------------------------------
(* The inputs of review_pr: diffs, model replies, search results *)

\* a.py: line 10 is an unchanged context line, line 42 is an added line
ScenarioDiff ==
    <<FileLine("a.py"), HunkLine(1, 10), CtxLine, HunkLine(30, 42), AddLine>>

ReviewDiffs == {<<>>, ScenarioDiff}

\* mutant: the test of line 693 never holds
IsBlankNever(diff_text) == FALSE

\* not diff.strip()
IsBlank(diff_text) == \A i \in DOMAIN diff_text : Strip(diff_text[i].text) = <<>>

\* concrete, with a code marker and an issue word, 64 characters
TextGood == <<"<tick>", "bug", "w30", "w30">>

\* 30 characters, no marker, no issue word
TextPlain == <<"w30">>

\* a hedge phrase in capitals
TextVague == <<"w30", "Unclear">>

CAddGood == Comment("a.py", 42, TextGood)

CAddPlain == Comment("a.py", 42, TextPlain)

CAddVague == Comment("a.py", 42, TextVague)

CCtxGood == Comment("a.py", 10, TextGood)

COtherFile == Comment("z.py", 42, TextGood)

\* the line_comments of a structured reply
RoundCommentLists == {<<>>, <<CCtxGood, CAddPlain>>, <<CAddVague>>}

\* the line_comments of the json block of a final free-text answer
FinalCommentLists == {<<>>, <<CAddGood>>, <<CAddPlain>>, <<COtherFile>>}

PatFoo == <<"foo">>

PatBar == <<"bar">>

Patterns == {PatFoo, PatBar}

RequestLists == {<<>>, <<Request(PatFoo), Request(PatBar)>>}

TextReplyLines ==
    {<< <<"prose">> >>,
     << <<"CONTEXT_REQUEST:">>, <<"- pattern:", "foo">>, <<"- reason:", "why">> >>,
     << <<"CONTEXT_REQUEST:">>, <<"prose">>, <<"- pattern:", "foo">> >>}

Replies ==
    {ObjectReply(nc, reqs, rv, lcs) :
        nc \in BOOLEAN, reqs \in RequestLists, rv \in {"", "R"},
        lcs \in RoundCommentLists}
    \cup {NonObjectReply}
    \cup {TextReply(ls) : ls \in TextReplyLines}

FinalAnswers ==
    {FinalAnswer("none", <<>>), FinalAnswer("invalid", <<>>)}
    \cup {FinalAnswer("object", lcs) : lcs \in FinalCommentLists}

SearchKinds == {"definitions", "usage", "import", "search"}

\* for each pattern the searches that find something: nothing is found;
\* one search finds foo; every search finds foo; one search finds foo and
\* one finds bar
FoundSets ==
    {[p \in Patterns |-> {}],
     [p \in Patterns |-> IF p = PatFoo THEN {"search"} ELSE {}],
     [p \in Patterns |-> IF p = PatFoo THEN SearchKinds ELSE {}],
     [p \in Patterns |-> {"search"}]}

\* what a search that finds something returns: file path -> matched lines
Evidence == [file : {"src/x.py"}, matches : {<<"1:x">>, <<"7:x">>}]

SearchOracles ==
    {[pk \in Patterns \X SearchKinds |->
        IF pk[2] \in found[pk[1]] THEN DictPut(EmptyDict, ev.file, ev.matches)
        ELSE EmptyDict] :
     found \in FoundSets, ev \in Evidence}

----------------------------------------------------------------------------
(* review_pr as a state machine.  pc is the statement about to run:        *)
(*   "get_diff"    diff = get_diff(exclude)                                *)
(*   "round"       the test of `while iteration < max_recursion`           *)
(*   "final_call"  the free-text call of the branch `if not               *)
(*                 context_requests` with an empty review                  *)
(*   "after_loop"  the test of `if iteration >= max_recursion`             *)
(*   "post"        post_review_comments                                    *)
(*   "post_summary" post_comment                                           *)
(*   "returned"    review_pr returned; "raised": an exception left it      *)

Message(role, kind, warning) == [role |-> role, kind |-> kind, warning |-> warning]

ReviewInit ==
    /\ ParserIdle
    /\ ValidatorIdle
    /\ SearchIdle
    /\ pc = "get_diff"
    /\ diff \in ReviewDiffs
    /\ max_recursion \in 0..MaxBudget
    /\ iteration = 0
    /\ all_context = EmptyDict
    /\ final_line_comments = <<>>
    /\ final_review = None
    /\ messages = <<>>
    /\ response = None
    /\ calls = <<>>
    /\ final_check = None
    /\ posts = <<>>

\* mutant: the loop admits one round more than the budget
LoopTestOffByOne == iteration <= max_recursion

\* while iteration < max_recursion
LoopTest == iteration < max_recursion

\* mutant: strict filtering only when nothing at all was gathered
LowContextOnlyWhenEmpty == all_context = EmptyDict

\* not all_context or len(all_context) < 2
LowContext == all_context = EmptyDict \/ Cardinality(DOMAIN all_context) < 2

\* the comments of additional_comments that pass validate_comment_quality
FilterComments(additional_comments, pattern) ==
    SelectSeq(additional_comments,
              LAMBDA c : validate_comment_quality(
                            IF "comment" \in DOMAIN c THEN c.comment ELSE <<>>,
                            pattern))

\* lines 691-711: the diff is fetched; an empty diff ends the run
GetDiffEmpty ==
    /\ pc = "get_diff"
    /\ IsBlank(diff)
    /\ pc' = "returned"
    /\ UNCHANGED pvars
    /\ UNCHANGED <<qvars, svars>>
    /\ UNCHANGED response
    /\ UNCHANGED <<diff, max_recursion, iteration, all_context,
                   final_line_comments, final_review, messages, calls,
                   final_check, posts>>

GetDiff ==
    /\ pc = "get_diff"
    /\ ~IsBlank(diff)
    /\ messages' = <<Message("system", "system", FALSE),
                     Message("user", "initial", FALSE)>>
    /\ pc' = "round"
    /\ UNCHANGED pvars
    /\ UNCHANGED <<qvars, svars>>
    /\ UNCHANGED response
    /\ UNCHANGED <<diff, max_recursion, iteration, all_context,
                   final_line_comments, final_review, calls, final_check, posts>>

\* final_line_comments.extend(line_comments) under `if line_comments`
Extended(line_comments) ==
    IF line_comments # <<>> THEN final_line_comments \o line_comments
    ELSE final_line_comments

\* a round whose reply makes parse_context_requests raise
RoundRaises ==
    /\ pc = "round"
    /\ LoopTest
    /\ \E reply \in Replies :
        /\ parse_context_requests(reply).raised
        /\ response' = Some(reply)
        /\ calls' = Append(calls, "openai_json")
        /\ pc' = "raised"
    /\ UNCHANGED pvars
    /\ UNCHANGED <<qvars, svars>>
    /\ UNCHANGED <<diff, max_recursion, iteration, all_context,
                   final_line_comments, final_review, messages, final_check,
                   posts>>

\* a round without context requests and with a review: lines 726-732, 753
RoundReview ==
    /\ pc = "round"
    /\ LoopTest
    /\ \E reply \in Replies :
        LET r == parse_context_requests(reply) IN
        /\ ~r.raised
        /\ r.context_requests = <<>>
        /\ r.review # ""
        /\ response' = Some(reply)
        /\ calls' = Append(calls, "openai_json")
        /\ final_line_comments' = Extended(r.line_comments)
        /\ final_review' = Some(r.review)
        /\ pc' = "after_loop"
    /\ UNCHANGED pvars
    /\ UNCHANGED <<qvars, svars>>
    /\ UNCHANGED <<diff, max_recursion, iteration, all_context, messages,
                   final_check, posts>>

\* a round without context requests and without a review: lines 733-736
RoundNoReview ==
    /\ pc = "round"
    /\ LoopTest
    /\ \E reply \in Replies :
        LET r == parse_context_requests(reply) IN
        /\ ~r.raised
        /\ r.context_requests = <<>>
        /\ r.review = ""
        /\ response' = Some(reply)
        /\ calls' = Append(calls, "openai_json")
        /\ final_line_comments' = Extended(r.line_comments)
        /\ messages' = messages \o <<Message("assistant", "reply", FALSE),
                                     Message("user", "final", FALSE)>>
        /\ pc' = "final_call"
    /\ UNCHANGED pvars
    /\ UNCHANGED <<qvars, svars>>
    /\ UNCHANGED <<diff, max_recursion, iteration, all_context, final_review,
                   final_check, posts>>

\* lines 737-753: the free-text call that follows RoundNoReview
FinalCall ==
    /\ pc = "final_call"
    /\ \E answer \in FinalAnswers :
        LET additional_comments == extract_line_comments_from_text(answer) IN
        /\ calls' = Append(calls, "openai_text")
        /\ final_review' = Some(answer.review)
        /\ IF additional_comments # <<>>
           THEN /\ final_line_comments' =
                      final_line_comments \o FilterComments(additional_comments, "")
                /\ final_check' = Some([by |-> "model", pattern |-> ""])
           ELSE UNCHANGED <<final_line_comments, final_check>>
        /\ pc' = "after_loop"
    /\ UNCHANGED pvars
    /\ UNCHANGED <<qvars, svars>>
    /\ UNCHANGED response
    /\ UNCHANGED <<diff, max_recursion, iteration, all_context, messages, posts>>

\* a round with context requests: lines 755-767
RoundGather ==
    /\ pc = "round"
    /\ LoopTest
    /\ \E reply \in Replies, search \in SearchOracles :
        LET r == parse_context_requests(reply)
            gathered == gather_comprehensive_context(r.context_requests, search)
        IN
        /\ ~r.raised
        /\ r.context_requests # <<>>
        /\ response' = Some(reply)
        /\ calls' = calls \o <<"openai_json", "gather">>
        /\ final_line_comments' = Extended(r.line_comments)
        /\ all_context' = DictUpdate(all_context, gathered)
        /\ messages' = messages \o <<Message("assistant", "reply", FALSE),
                                     Message("user", "context", FALSE)>>
        /\ iteration' = iteration + 1
        /\ pc' = "round"
    /\ UNCHANGED pvars
    /\ UNCHANGED <<qvars, svars>>
    /\ UNCHANGED <<diff, max_recursion, final_review, final_check, posts>>

\* the loop test fails
LoopExit ==
    /\ pc = "round"
    /\ ~LoopTest
    /\ pc' = "after_loop"
    /\ UNCHANGED pvars
    /\ UNCHANGED <<qvars, svars>>
    /\ UNCHANGED response
    /\ UNCHANGED <<diff, max_recursion, iteration, all_context,
                   final_line_comments, final_review, messages, calls,
                   final_check, posts>>

\* lines 769-793: the forced final round
ForcedFinal ==
    /\ pc = "after_loop"
    /\ iteration >= max_recursion
    /\ \E answer \in FinalAnswers :
        LET additional_comments == extract_line_comments_from_text(answer)
            strict_filtering == LowContext
            pattern == IF ~strict_filtering THEN "" ELSE "STRICT"
        IN
        /\ messages' = Append(messages, Message("user", "final", LowContext))
        /\ calls' = Append(calls, "openai_text")
        /\ final_review' = Some(answer.review)
        /\ IF additional_comments # <<>>
           THEN /\ final_line_comments' =
                      final_line_comments \o FilterComments(additional_comments, pattern)
                /\ final_check' = Some([by |-> "forced", pattern |-> pattern])
           ELSE UNCHANGED <<final_line_comments, final_check>>
        /\ pc' = "post"
    /\ UNCHANGED pvars
    /\ UNCHANGED <<qvars, svars>>
    /\ UNCHANGED response
    /\ UNCHANGED <<diff, max_recursion, iteration, all_context, posts>>

\* the test of line 769 fails
NoForcedFinal ==
    /\ pc = "after_loop"
    /\ ~(iteration >= max_recursion)
    /\ pc' = "post"
    /\ UNCHANGED pvars
    /\ UNCHANGED <<qvars, svars>>
    /\ UNCHANGED response
    /\ UNCHANGED <<diff, max_recursion, iteration, all_context,
                   final_line_comments, final_review, messages, calls,
                   final_check, posts>>

\* call_openai raises: the exception leaves review_pr
OpenAIRaises ==
    /\ \/ pc = "round" /\ LoopTest /\ calls' = Append(calls, "openai_json")
       \/ pc = "final_call" /\ calls' = Append(calls, "openai_text")
       \/ /\ pc = "after_loop" /\ iteration >= max_recursion
          /\ calls' = Append(calls, "openai_text")
    /\ pc' = "raised"
    /\ UNCHANGED pvars
    /\ UNCHANGED <<qvars, svars>>
    /\ UNCHANGED response
    /\ UNCHANGED <<diff, max_recursion, iteration, all_context,
                   final_line_comments, final_review, messages, final_check,
                   posts>>

Post(kind, comments, body, ok) ==
    [kind |-> kind, comments |-> comments, body |-> body, ok |-> ok]

\* mutant: a failed review request raises like a failed summary request
AfterReviewRequestRaising(ok) == IF ok THEN "post_summary" ELSE "raised"

\* lines 407-411: a status of 300 or more is printed and nothing is raised
AfterReviewRequest(ok) == "post_summary"

\* lines 800-804 with post_review_comments: the batched review request
PostReviewComments ==
    /\ pc = "post"
    /\ LET valid_comments == ValidComments(final_line_comments, diff) IN
       IF final_line_comments # <<>> /\ valid_comments # <<>>
       THEN \E ok \in BOOLEAN :
              /\ posts' = Append(posts, Post("review", valid_comments, None, ok))
              /\ calls' = Append(calls, "post_review")
              /\ pc' = AfterReviewRequest(ok)
       ELSE pc' = "post_summary" /\ UNCHANGED <<posts, calls>>
    /\ UNCHANGED pvars
    /\ UNCHANGED <<qvars, svars>>
    /\ UNCHANGED response
    /\ UNCHANGED <<diff, max_recursion, iteration, all_context,
                   final_line_comments, final_review, messages, final_check>>

\* the comment_body of lines 836-843
CommentBody ==
    [iterations |-> iteration,
     total_patterns |-> Cardinality(DOMAIN all_context),
     review |-> final_review[1]]

\* line 845 with post_comment: a status of 300 or more raises RuntimeError
PostComment ==
    /\ pc = "post_summary"
    /\ IF final_review = None
       \* comment_body reads an unassigned variable
       THEN pc' = "raised" /\ UNCHANGED <<posts, calls>>
       ELSE \E ok \in BOOLEAN :
              /\ posts' = Append(posts, Post("comment", <<>>, Some(CommentBody), ok))
              /\ calls' = Append(calls, "post_comment")
              /\ pc' = IF ok THEN "returned" ELSE "raised"
    /\ UNCHANGED pvars
    /\ UNCHANGED <<qvars, svars>>
    /\ UNCHANGED response
    /\ UNCHANGED <<diff, max_recursion, iteration, all_context,
                   final_line_comments, final_review, messages, final_check>>

Next ==
    \/ GetDiffEmpty
    \/ GetDiff
    \/ RoundRaises
    \/ RoundReview
    \/ RoundNoReview
    \/ FinalCall
    \/ RoundGather
    \/ LoopExit
    \/ ForcedFinal
    \/ NoForcedFinal
    \/ OpenAIRaises
    \/ PostReviewComments
    \/ PostComment

Spec == ReviewInit /\ [][Next]_vars

----------------------------------------------------------------------------
(* The searches of a gather on a checked-out tree.  A tree is              *)
(*   content  : <<pattern, file>> -> what the file has about the pattern:  *)
(*              "none", "use" (a call), "import" (an import line) or "def" *)
(*              (its definition); one such line per file and pattern       *)
(*   bad_ext  : the extensions whose find | xargs grep command fails       *)
(*   bad_file : the files whose grep -n output and whose content cannot be *)
(*              read (run and open raise on them)                          *)
(* A search pattern is a form ("plain" is the pattern itself) and the      *)
(* pattern it is built from.                                               *)

\* two of the fourteen entries of file_extensions, in their order
Extensions == <<"*.py", "*.js">>

\* the files of the tree in the order find prints them
Files == <<"a.py", "b.py", "c.js">>

ExtOf(f) == IF f \in {"a.py", "b.py"} THEN "*.py" ELSE "*.js"

FilesOf(ext) == SelectSeq(Files, LAMBDA f : ExtOf(f) = ext)

\* a line of grep -n output
MatchLine(kind, pattern) == [kind |-> kind, of |-> pattern]

\* run(cmd): the stripped output, or RuntimeError and the like
CmdOk(out) == [failed |-> FALSE, out |-> out]

CmdFails == [failed |-> TRUE, out |-> <<>>]

\* whether the line a file has about the pattern matches the search pattern
FormMatches(form, kind, ext) ==
    CASE form = "plain" -> kind # "none"
      [] form = "from_import" -> kind = "import" /\ ext = "*.py"
      [] form = "import" -> kind = "import"
      [] form = "require" -> FALSE
      [] form = "def" -> kind = "def" /\ ext = "*.py"
      [] form = "function" -> kind = "def" /\ ext = "*.js"
      [] OTHER -> FALSE

\* find . -name ext -type f | head -50 | xargs grep -l search_pattern
GrepL(tree, ext, form, pattern) ==
    IF ext \in tree.bad_ext THEN CmdFails
    ELSE CmdOk(SelectSeq(FilesOf(ext),
                         LAMBDA f : FormMatches(form, tree.content[<<pattern, f>>], ext)))

\* grep -n search_pattern file | head -10
GrepN(tree, f, form, pattern) ==
    IF f \in tree.bad_file THEN CmdFails
    ELSE CmdOk(IF FormMatches(form, tree.content[<<pattern, f>>], ExtOf(f))
               THEN <<MatchLine(tree.content[<<pattern, f>>], pattern)>>
               ELSE <<>>)

\* mutant: no try around the work on one file, its failure reaches the
\* handler of the extension
InnerTryMissing == FALSE

\* lines 224-231 and 558-567: except Exception around the work on one file
InnerTryCatches == TRUE

\* lines 222-231: for file_path in matching_files.split("\n")
RECURSIVE SearchFiles(_, _, _, _)
SearchFiles(results, tree, files, pattern) ==
    IF files = <<>> THEN results
    ELSE LET f == Head(files)
             matches == GrepN(tree, f, "plain", pattern)
         IN  IF matches.failed
             THEN IF InnerTryCatches
                  THEN SearchFiles(results, tree, Tail(files), pattern)
                  ELSE results
             ELSE SearchFiles(IF matches.out # <<>>
                              THEN DictPut(results, f, matches.out)
                              ELSE results,
                              tree, Tail(files), pattern)

\* lines 217-234: for ext in file_extensions
RECURSIVE SearchExts(_, _, _, _)
SearchExts(results, tree, exts, pattern) ==
    IF exts = <<>> THEN results
    ELSE LET matching_files == GrepL(tree, Head(exts), "plain", pattern) IN
         SearchExts(IF matching_files.failed THEN results
                    ELSE SearchFiles(results, tree, matching_files.out, pattern),
                    tree, Tail(exts), pattern)

search_code_in_repo(pattern, tree) == SearchExts(EmptyDict, tree, Extensions, pattern)

\* lines 531-548
search_patterns(search_type) ==
    CASE search_type = "definition" -> <<"def", "class", "function", "const", "assign">>
      [] search_type = "import" -> <<"from_import", "import", "require">>
      [] OTHER -> <<"plain">>

\* lines 556-567: results[file_path].extend(matches.split("\n"))
RECURSIVE EnhancedFiles(_, _, _, _, _)
EnhancedFiles(results, tree, files, form, pattern) ==
    IF files = <<>> THEN results
    ELSE LET f == Head(files)
             matches == GrepN(tree, f, form, pattern)
             sofar == IF f \in DOMAIN results THEN results[f] ELSE <<>>
         IN  IF matches.failed
             THEN IF InnerTryCatches
                  THEN EnhancedFiles(results, tree, Tail(files), form, pattern)
                  ELSE results
             ELSE EnhancedFiles(IF matches.out # <<>>
                                THEN DictPut(results, f, sofar \o matches.out)
                                ELSE results,
                                tree, Tail(files), form, pattern)

\* lines 551-570: for search_pattern in search_patterns
RECURSIVE EnhancedForms(_, _, _, _, _)
EnhancedForms(results, tree, ext, forms, pattern) ==
    IF forms = <<>> THEN results
    ELSE LET matching_files == GrepL(tree, ext, Head(forms), pattern) IN
         EnhancedForms(IF matching_files.failed THEN results
                       ELSE EnhancedFiles(results, tree, matching_files.out,
                                          Head(forms), pattern),
                       tree, ext, Tail(forms), pattern)

\* line 550: for ext in file_extensions
RECURSIVE EnhancedExts(_, _, _, _, _)
EnhancedExts(results, tree, exts, forms, pattern) ==
    IF exts = <<>> THEN results
    ELSE EnhancedExts(EnhancedForms(results, tree, Head(exts), forms, pattern),
                      tree, Tail(exts), forms, pattern)

enhanced_search_code_in_repo(pattern, search_type, tree) ==
    EnhancedExts(EmptyDict, tree, Extensions, search_patterns(search_type), pattern)

\* get_file_context(file_path, None, 10)[:1000]
get_file_context(tree, f) ==
    IF f \in tree.bad_file THEN <<"Error reading", f>> ELSE <<"content of", f>>

\* lines 478-488: the files of the lines xargs grep -n prints for the
\* extension's definition pattern
DefGrep(tree, ext, pattern) ==
    IF ext \in tree.bad_ext THEN CmdFails
    ELSE CmdOk(SelectSeq(FilesOf(ext),
                 LAMBDA f : IF ext \in {"*.py", "*.js"}
                            THEN tree.content[<<pattern, f>>] = "def"
                            ELSE tree.content[<<pattern, f>>] # "none"))

\* lines 490-496: for line in matching_lines.split("\n")
RECURSIVE DefLines(_, _, _)
DefLines(results, tree, files) ==
    IF files = <<>> THEN results
    ELSE DefLines(IF Head(files) \notin DOMAIN results
                  THEN DictPut(results, Head(files), get_file_context(tree, Head(files)))
                  ELSE results,
                  tree, Tail(files))

\* lines 476-499: for ext in file_extensions
RECURSIVE DefExts(_, _, _, _)
DefExts(results, tree, exts, pattern) ==
    IF exts = <<>> THEN results
    ELSE LET matching_lines == DefGrep(tree, Head(exts), pattern) IN
         DefExts(IF matching_lines.failed THEN results
                 ELSE DefLines(results, tree, matching_lines.out),
                 tree, Tail(exts), pattern)

get_function_definition(function_name, tree) ==
    DefExts(EmptyDict, tree, Extensions, function_name)

\* the four searches gather_comprehensive_context makes for a pattern
SearchIn(tree) ==
    [pk \in {c[1] : c \in DOMAIN tree.content} \X SearchKinds |->
        CASE pk[2] = "definitions" -> get_function_definition(pk[1], tree)
          [] pk[2] = "usage" -> enhanced_search_code_in_repo(pk[1], "usage", tree)
          [] pk[2] = "import" -> enhanced_search_code_in_repo(pk[1], "import", tree)
          [] OTHER -> search_code_in_repo(pk[1], tree)]

FileSet == {Files[i] : i \in DOMAIN Files}

ContentKinds == {"none", "use", "import", "def"}

\* foo is used, imported or defined; bar is at most used
Contents ==
    {c \in [Patterns \X FileSet -> ContentKinds] :
        \A f \in FileSet : c[<<PatBar, f>>] \in {"none", "use"}}

Trees ==
    [content : Contents,
     bad_ext : SUBSET {Extensions[i] : i \in DOMAIN Extensions},
     bad_file : SUBSET FileSet]

SearchRequestLists == {<<Request(PatFoo)>>, <<Request(PatFoo), Request(PatBar)>>}

\* review_pr at line 755, with the context_requests of a structured reply
SearchInit ==
    /\ ParserIdle
    /\ ValidatorIdle
    /\ repo \in Trees
    /\ current_context = None
    /\ pc = "gather"
    /\ diff = <<>>
    /\ max_recursion = 1
    /\ iteration = 0
    /\ all_context = EmptyDict
    /\ final_line_comments = <<>>
    /\ final_review = None
    /\ messages = <<>>
    /\ \E reqs \in SearchRequestLists :
          response = Some(ObjectReply(TRUE, reqs, "", <<>>))
    /\ calls = <<"openai_json">>
    /\ final_check = None
    /\ posts = <<>>

\* lines 758-767: the gather of the round on the tree, then the update
GatherOnTree ==
    /\ pc = "gather"
    /\ current_context' =
          Some(gather_comprehensive_context(response[1].context_requests,
                                            SearchIn(repo)))
    /\ all_context' = DictUpdate(all_context, current_context'[1])
    /\ calls' = Append(calls, "gather")
    /\ iteration' = iteration + 1
    /\ pc' = "round"
    /\ UNCHANGED <<pvars, qvars, repo>>
    /\ UNCHANGED <<diff, max_recursion, final_line_comments, final_review,
                   messages, response, final_check, posts>>

SearchNext == GatherOnTree

SpecSearch == SearchInit /\ [][SearchNext]_vars

----------------------------------------------------------------------------
(* The gathering rounds of the loop on one tree: the content of the tree   *)
(* stays, the failures of the commands differ from round to round.         *)

\* a pattern whose text is the usage key of foo
PatFooUsage == <<"foo", "_usage">>

GatherPatterns == {PatFoo, PatBar, PatFooUsage}

\* a.py calls foo, b.py imports foo, c.js defines foo and calls foo_usage;
\* b.py calls bar
GatherContent ==
    [pf \in GatherPatterns \X FileSet |->
        CASE pf = <<PatFoo, "a.py">> -> "use"
          [] pf = <<PatFoo, "b.py">> -> "import"
          [] pf = <<PatFoo, "c.js">> -> "def"
          [] pf = <<PatBar, "b.py">> -> "use"
          [] pf = <<PatFooUsage, "c.js">> -> "use"
          [] OTHER -> "none"]

\* what fails in a round: nothing, one file, one extension, every file
RoundFailures ==
    {[bad_ext |-> {}, bad_file |-> {}],
     [bad_ext |-> {}, bad_file |-> {"a.py"}],
     [bad_ext |-> {"*.py"}, bad_file |-> {}],
     [bad_ext |-> {}, bad_file |-> FileSet]}

GatherRequestLists ==
    {<<Request(PatFoo)>>, <<Request(PatBar)>>, <<Request(PatFooUsage)>>,
     <<Request(PatFoo), Request(PatBar)>>}

\* review_pr at the loop test, with the budget MaxBudget
GatherInit ==
    /\ ParserIdle
    /\ ValidatorIdle
    /\ repo = [content |-> GatherContent, bad_ext |-> {}, bad_file |-> {}]
    /\ current_context = None
    /\ pc = "round"
    /\ diff = <<>>
    /\ max_recursion = MaxBudget
    /\ iteration = 0
    /\ all_context = EmptyDict
    /\ final_line_comments = <<>>
    /\ final_review = None
    /\ messages = <<>>
    /\ response = None
    /\ calls = <<>>
    /\ final_check = None
    /\ posts = <<>>

\* lines 717-767: a round whose reply requests context
GatherRound ==
    /\ pc = "round"
    /\ LoopTest
    /\ \E reqs \in GatherRequestLists, fails \in RoundFailures :
        /\ response' = Some(ObjectReply(TRUE, reqs, "", <<>>))
        /\ repo' = [repo EXCEPT !.bad_ext = fails.bad_ext,
                                !.bad_file = fails.bad_file]
        /\ current_context' =
              Some(gather_comprehensive_context(reqs, SearchIn(repo')))
        /\ all_context' = DictUpdate(all_context, current_context'[1])
        \* the reply, which holds the requests, and the context prompt join
        \* the transcript
        /\ messages' = messages \o <<[role |-> "assistant", requests |-> reqs],
                                     [role |-> "user", requests |-> <<>>]>>
        /\ iteration' = iteration + 1
    /\ UNCHANGED <<pvars, qvars>>
    /\ UNCHANGED <<pc, diff, max_recursion, final_line_comments, final_review,
                   calls, final_check, posts>>

GatherNext == GatherRound

SpecGather == GatherInit /\ [][GatherNext]_vars

----------------------------------------------------------------------------
(* Properties of the diff parser and of the legal anchor lines *)

\* the positions <<hunk index, line index>> of the lines of a file
LinePositions(f) ==
    UNION {{<<i, j>> : j \in DOMAIN file_changes[f][i].lines} :
           i \in DOMAIN file_changes[f]}

LineAt(f, p) == file_changes[f][p[1]].lines[p[2]]

\* n is the new_line_number of a line of type t of file f
IsNumberOf(f, n, t) ==
    \E p \in LinePositions(f) :
        LineAt(f, p).type = t /\ LineAt(f, p).line_number = Some(n)

\* the step-by-step parse and the parse of the whole text agree
ParseAgrees == parse_diff_with_line_numbers(dlines) = file_changes

\* C3 (as stated): for every diff text the valid set of a file holds only
\* new_line_numbers of Added lines of that file and holds no number that is
\* the new_line_number of a Context line of that file.
C3_OnlyAddedNeverContext ==
    LET valid == get_valid_diff_lines(dlines) IN
    /\ DOMAIN valid = DOMAIN file_changes
    /\ \A f \in DOMAIN valid : \A n \in valid[f] :
            /\ IsNumberOf(f, n, "+")
            /\ ~IsNumberOf(f, n, " ")

\* C3 (amended): the valid set of a file is exactly the set of the
\* new_line_numbers of its Added lines; Removed lines contribute nothing; a
\* number of a Context line is in the set only when an Added line of another
\* hunk of the same file carries the same number (overlapping hunks).
C3_ExactlyAddedNumbers ==
    LET valid == get_valid_diff_lines(dlines) IN
    /\ DOMAIN valid = DOMAIN file_changes
    /\ \A f \in DOMAIN valid :
        /\ \A n \in valid[f] : IsNumberOf(f, n, "+")
        /\ \A p \in LinePositions(f) :
            /\ LineAt(f, p).type = "+" => LineAt(f, p).line_number[1] \in valid[f]
            /\ LineAt(f, p).type = "-" => LineAt(f, p).line_number = None
            /\ (LineAt(f, p).type = " " /\ LineAt(f, p).line_number[1] \in valid[f])
                  => \E q \in LinePositions(f) :
                        /\ q[1] # p[1]
                        /\ LineAt(f, q).type = "+"
                        /\ LineAt(f, q).line_number = LineAt(f, p).line_number

\* a file with an Added, a Removed and a Context line, whose valid set holds
\* the Added number and not the Context number
C3_Witness ==
    \E f \in DOMAIN file_changes :
        \E n \in get_valid_diff_lines(dlines)[f] :
            /\ \E p \in LinePositions(f) : LineAt(f, p).type = "-"
            /\ \E p \in LinePositions(f) :
                  /\ LineAt(f, p).type = " "
                  /\ LineAt(f, p).line_number[1] \notin get_valid_diff_lines(dlines)[f]

\* the Added/Context lines among the first j - 1 lines of a hunk
EarlierNewLines(lines, j) ==
    Cardinality({i \in 1..(j - 1) : lines[i].type \in {"+", " "}})

HunkNumbered(h) ==
    \A j \in DOMAIN h.lines :
        /\ h.lines[j].type \in {"+", " "}
              => h.lines[j].line_number = Some(h.new_start + EarlierNewLines(h.lines, j))
        /\ h.lines[j].type = "-" => h.lines[j].line_number = None

\* new_start = 10 with [context, add, add, remove, context]
ExampleDiff ==
    <<FileLine("a.py"), HunkLine(1, 10),
      CtxLine, AddLine, AddLine, RemLine, CtxLine>>

ExampleNumbers ==
    LET h == parse_diff_with_line_numbers(ExampleDiff)["a.py"][1] IN
    [j \in DOMAIN h.lines |-> h.lines[j].line_number]

\* C4: in every parsed hunk an Added or Context line is numbered new_start
\* plus the number of Added/Context lines recorded before it in that hunk, a
\* Removed line is numbered None and does not advance the counter; the
\* example hunk is numbered [10, 11, 12, None, 13].
C4_HunkLineNumbers ==
    /\ \A f \in DOMAIN file_changes :
          \A i \in DOMAIN file_changes[f] : HunkNumbered(file_changes[f][i])
    /\ current_hunk # None => HunkNumbered(current_hunk[1].hunk)
    /\ ExampleNumbers = <<Some(10), Some(11), Some(12), None, Some(13)>>

\* a hunk in which a Removed line stands between numbered lines
C4_Witness ==
    \E f \in DOMAIN file_changes : \E i \in DOMAIN file_changes[f] :
        LET ls == file_changes[f][i].lines IN
        /\ Len(ls) = 3
        /\ ls[1].type = "+" /\ ls[2].type = "-" /\ ls[3].type = " "
        /\ ls[3].line_number = Some(file_changes[f][i].new_start + 1)

----------------------------------------------------------------------------
(* Properties of review_pr *)

Count(s, x) == Cardinality({i \in DOMAIN s : s[i] = x})

Range(s) == {s[i] : i \in DOMAIN s}

IsPrefix(s, t) == Len(s) <= Len(t) /\ SubSeq(t, 1, Len(s)) = s

Gathers == Count(calls, "gather")

JsonCalls == Count(calls, "openai_json")

TextCalls == Count(calls, "openai_text")

\* the model calls and the gathers, in the order they were made
LoopCalls == SelectSeq(calls, LAMBDA c : c \in {"openai_json", "gather", "openai_text"})

\* N gathering rounds followed by one free-text call
RECURSIVE GatherRounds(_)
GatherRounds(n) ==
    IF n = 0 THEN <<>> ELSE <<"openai_json", "gather">> \o GatherRounds(n - 1)

\* the final summary exists: the loop and the finalization are over
Finalized == final_review # None

\* C1: when every structured round requests context, the run makes exactly
\* max_recursion gathering rounds and then exactly one forced free-text
\* call; in no run does a gathering round follow the max_recursion-th one.
C1_BudgetTermination ==
    /\ Gathers <= max_recursion
    /\ (Finalized /\ Gathers = JsonCalls)
          => LoopCalls = GatherRounds(max_recursion) \o <<"openai_text">>

\* three gathering rounds, one forced final call, the review is being posted
C1_Witness ==
    /\ max_recursion = 3
    /\ pc = "post"
    /\ LoopCalls = <<"openai_json", "gather", "openai_json", "gather",
                     "openai_json", "gather", "openai_text">>

\* n is the new_line_number of an Added line of file f of the diff
IsAddedAnchor(f, n) ==
    LET fc == parse_diff_with_line_numbers(diff) IN
    /\ f \in DOMAIN fc
    /\ \E i \in DOMAIN fc[f] : \E j \in DOMAIN fc[f][i].lines :
          /\ fc[f][i].lines[j].type = "+"
          /\ fc[f][i].lines[j].line_number = Some(n)

ReviewPosts == {i \in DOMAIN posts : posts[i].kind = "review"}

SummaryPosts == {i \in DOMAIN posts : posts[i].kind = "comment"}

\* post_review_comments has run
InlineStepDone == pc = "post_summary" \/ SummaryPosts # {}

\* C2: a candidate comment is put in the review request only if its file and
\* line are the new line number of an Added line of the diff; a comment on a
\* Context line or outside the diff is dropped; a candidate on an Added line
\* that passes the quality check is in the request.
C2_OnlyLegalAnchorsPosted ==
    /\ \A i \in ReviewPosts : \A c \in Range(posts[i].comments) :
          /\ c \in Range(final_line_comments)
          /\ IsAddedAnchor(c.file, c.line)
    /\ InlineStepDone =>
          \A c \in Range(final_line_comments) :
              (/\ IsAddedAnchor(c.file, c.line)
               /\ validate_comment_quality(c.comment, ""))
                 => \E i \in ReviewPosts : c \in Range(posts[i].comments)

\* candidates on line 10 (context) and on line 42 (added): only the latter
\* is in the review request
C2_Witness ==
    /\ CCtxGood \in Range(final_line_comments)
    /\ \E i \in ReviewPosts :
          /\ Range(posts[i].comments) # {}
          /\ \A c \in Range(posts[i].comments) : c.line = 42
          /\ posts[i].ok

\* the last structured reply is a dict with needs_context false
LastReplyNoContext ==
    /\ response # None
    /\ response[1].form = "object"
    /\ ~response[1].needs_context

\* C5: after a structured reply with needs_context false, a non-empty review
\* is the final summary and no further model call is made; with an empty
\* review exactly one free-text call is made and iteration is not
\* incremented by it.
C5_FinalizeByModel ==
    LastReplyNoContext =>
        /\ JsonCalls = Gathers + 1
        /\ iteration = Gathers
        /\ IF response[1].review # ""
           THEN /\ final_review = Some(response[1].review)
                /\ TextCalls = 0
                /\ pc # "final_call"
           ELSE /\ TextCalls <= 1
                /\ pc = "final_call" => TextCalls = 0 /\ final_review = None
                /\ pc \notin {"final_call", "raised"} =>
                      TextCalls = 1 /\ final_review = Some("F")

\* an empty review after one gathering round: one free-text call was made
C5_Witness ==
    /\ LastReplyNoContext
    /\ response[1].review = ""
    /\ pc = "post"
    /\ iteration = 1
    /\ TextCalls = 1

\* a step that receives a structured reply and goes on
ReceivesReply ==
    /\ Len(calls') > Len(calls)
    /\ calls'[Len(calls) + 1] = "openai_json"
    /\ pc' # "raised"

\* C6: every round appends the line_comments of its structured reply to the
\* candidates, whether or not the reply asks for context, and no step
\* removes a candidate gathered before.
C6_CommentsAccumulate ==
    [][/\ IsPrefix(final_line_comments, final_line_comments')
       /\ (ReceivesReply /\ response'[1].form = "object")
            => final_line_comments' =
                 final_line_comments \o response'[1].line_comments]_vars

\* a comment of a round that asked for context, then one of a round that
\* did not
C6_Witness ==
    /\ iteration = 1
    /\ LastReplyNoContext
    /\ final_line_comments = <<CAddVague, CCtxGood, CAddPlain>>

\* the forced final round has run
ForcedDone == Finalized /\ iteration >= max_recursion

\* the requested patterns that have an entry in all_context
PatternsCovered ==
    {p \in Patterns :
        \E sfx \in {"_definitions", "_usage", "_imports", ""} :
            ContextKey(p, sfx) \in DOMAIN all_context}

FinalPromptWarned == messages[Len(messages)].warning

\* C7 (as stated): in the forced final round the warning is added and Strict
\* mode is used exactly when the accumulated context covers fewer than 2
\* requested patterns.
C7_StrictIffFewPatterns ==
    ForcedDone =>
        /\ FinalPromptWarned <=> Cardinality(PatternsCovered) < 2
        /\ final_check # None =>
              (final_check[1].pattern = "STRICT" <=> Cardinality(PatternsCovered) < 2)

\* C8 (as stated): whenever the loop ends with sparse or no context, by the
\* model or by the budget, the comments of the final answer are validated in
\* Strict mode.
C8_StrictWheneverLowContext ==
    (final_check # None /\ Cardinality(DOMAIN all_context) < 2)
        => final_check[1].pattern = "STRICT"

\* C8 (amended): the comments of the final answer are validated in Strict
\* mode exactly when the loop ended by budget exhaustion with fewer than 2
\* entries in all_context; when the model ended the loop they are validated
\* in Normal mode, whatever was gathered.
C8_StrictOnlyWhenForced ==
    final_check # None =>
        /\ final_check[1].by = "forced" <=> iteration >= max_recursion
        /\ final_check[1].pattern = "STRICT" <=>
              (iteration >= max_recursion /\ Cardinality(DOMAIN all_context) < 2)
        /\ final_check[1].pattern \in {"", "STRICT"}

\* the model ended the loop with nothing gathered and the plain comment of
\* its final answer was kept
C8_Witness ==
    /\ final_check = Some([by |-> "model", pattern |-> ""])
    /\ all_context = EmptyDict
    /\ response[1].line_comments = <<>>
    /\ final_line_comments = <<CAddPlain>>

\* C9 (as stated): parse_context_requests returns for every reply, and a
\* reply without structured object and without request block counts as
\* needs_context false with empty review and no comments.
C9_ParseNeverRaises ==
    response # None =>
        /\ ~parse_context_requests(response[1]).raised
        /\ (response[1].form = "text" /\ FallbackParse(response[1].lines) = <<>>)
              => parse_context_requests(response[1]) = Returned(<<>>, "", <<>>)

InlinePublished == \E i \in ReviewPosts : posts[i].ok

SummaryPublished == \E i \in SummaryPosts : posts[i].ok

RunEnded == pc \in {"returned", "raised"}

ModelCallRaised ==
    /\ pc = "raised"
    /\ posts = <<>>
    /\ ~(response # None /\ parse_context_requests(response[1]).raised)

\* C11 (as stated): in every run with a non-empty diff whose model calls
\* succeed the summary comment is posted exactly once and the inline comments
\* with at most one review request; a failed review request is followed by
\* the summary request and by no other request.
C11_SummaryOnceInlineAtMostOnce ==
    /\ Cardinality(ReviewPosts) <= 1
    /\ Cardinality(SummaryPosts) <= 1
    /\ (RunEnded /\ ~IsBlank(diff) /\ ~ModelCallRaised)
          => Cardinality(SummaryPosts) = 1
    /\ \A i \in ReviewPosts :
          (RunEnded /\ ~posts[i].ok)
             => /\ Len(posts) = i + 1
                /\ posts[i + 1].kind = "comment"

----------------------------------------------------------------------------
(* Properties of validate_comment_quality *)

Validated == v_result # None

Accepted == v_result = Some(TRUE)

Rejected == v_result = Some(FALSE)

\* an atom of the text is, letter case aside, one of the hedge phrases
HasHedge(text) ==
    \E i \in DOMAIN text : \E j \in DOMAIN vague_phrases :
        AtomLower(text[i]) = AtomLower(vague_phrases[j])

\* C12: a comment that contains a denylisted hedge phrase, in any letter
\* case, is rejected in every mode, with every pattern and at every length.
C12_HedgeAlwaysRejected ==
    (Validated /\ HasHedge(v_comment)) => Rejected

\* a capitalised hedge phrase in a comment that is long enough, Normal mode
C12_Witness ==
    /\ Rejected
    /\ v_pattern = ""
    /\ v_comment = <<"w30", "Unclear">>

\* the characters of the text as written
RawLen(text) == TextLen(text)

NonBlank(text) == {i \in DOMAIN text : text[i] # " "}

\* the characters between the first and the last non-blank atom
TrimmedLen(text) ==
    IF NonBlank(text) = {} THEN 0
    ELSE LET a == CHOOSE i \in NonBlank(text) : \A j \in NonBlank(text) : i <= j
             b == CHOOSE i \in NonBlank(text) : \A j \in NonBlank(text) : j <= i
         IN  TextLen(SubSeq(text, a, b))

\* a backtick, alone or in a code fence
HasBacktick(text) == \E i \in DOMAIN text : text[i] \in {"<tick>", "<fence>"}

\* an issue-category word, in any letter case
MentionsIssue(text) ==
    \E i \in DOMAIN text : \E j \in DOMAIN issue_words :
        AtomLower(text[i]) = issue_words[j]

\* how many of the three Strict signals hold, with the given length
SignalCount(text, length) ==
    Cardinality({k \in 1..3 :
        \/ k = 1 /\ HasBacktick(text)
        \/ k = 2 /\ MentionsIssue(text)
        \/ k = 3 /\ length > 50})

\* C13 (as stated): in Strict mode a comment without hedge phrase and of at
\* least 20 characters is accepted exactly when 2 of the 3 signals hold
\* (backtick, issue word, more than 50 characters); with all three it is
\* accepted in Strict and in Normal mode.
C13_StrictTwoOfThree ==
    /\ (Validated /\ v_pattern = "STRICT" /\ ~HasHedge(v_comment)
           /\ RawLen(v_comment) >= 20)
          => (Accepted <=> SignalCount(v_comment, RawLen(v_comment)) >= 2)
    /\ (Validated /\ v_pattern \in {"", "STRICT"} /\ ~HasHedge(v_comment)
           /\ SignalCount(v_comment, RawLen(v_comment)) = 3)
          => Accepted

\* C13 (amended): the same, with both lengths measured after leading and
\* trailing whitespace is stripped.
C13_StrictTwoOfThreeStripped ==
    /\ (Validated /\ v_pattern = "STRICT" /\ ~HasHedge(v_comment)
           /\ TrimmedLen(v_comment) >= 20)
          => (Accepted <=> SignalCount(v_comment, TrimmedLen(v_comment)) >= 2)
    /\ (Validated /\ v_pattern \in {"", "STRICT"} /\ ~HasHedge(v_comment)
           /\ SignalCount(v_comment, TrimmedLen(v_comment)) = 3)
          => Accepted

\* Strict mode accepts a 24-character comment with a backtick and an issue
\* word
C13_Witness ==
    /\ Accepted
    /\ v_pattern = "STRICT"
    /\ v_comment = <<"<tick>", "bug", "w20">>

\* C14 (as stated): a comment shorter than 20 characters is rejected in
\* every mode, and Normal mode without pattern accepts every comment of at
\* least 20 characters that has no hedge phrase.
C14_LengthThreshold ==
    /\ (Validated /\ RawLen(v_comment) < 20) => Rejected
    /\ (Validated /\ v_pattern = "" /\ RawLen(v_comment) >= 20
           /\ ~HasHedge(v_comment))
          => Accepted

\* C14 (amended): the same, with the length measured after leading and
\* trailing whitespace is stripped.
C14_StrippedLengthThreshold ==
    /\ (Validated /\ TrimmedLen(v_comment) < 20) => Rejected
    /\ (Validated /\ v_pattern = "" /\ TrimmedLen(v_comment) >= 20
           /\ ~HasHedge(v_comment))
          => Accepted

\* the 10-character comment is rejected in Strict mode
C14_Witness ==
    /\ Rejected
    /\ v_pattern = "STRICT"
    /\ v_comment = <<"looks fine">>

\* the pattern occurs in the text, letter case aside
Mentions(text, word) == \E i \in DOMAIN text : AtomLower(text[i]) = AtomLower(word)

\* a backtick, colon, equals sign or parenthesis
HasCodeLikeMarker(text) ==
    \E i \in DOMAIN text : text[i] \in {"<tick>", "<fence>", ":", "=", "(", ")"}

PassedHedgeAndLength == ~HasHedge(v_comment) /\ TrimmedLen(v_comment) >= 20

\* C15: with a non-empty pattern other than the sentinel, a comment that
\* passed the hedge and length rules is rejected exactly when it neither
\* mentions the pattern, letter case aside, nor has a code-like marker; with
\* the sentinel STRICT a comment with two Strict signals is accepted without
\* mentioning anything and without marker.
C15_PatternOrMarker ==
    /\ (Validated /\ v_pattern \notin {"", "STRICT"} /\ PassedHedgeAndLength)
          => (Rejected <=> (/\ ~Mentions(v_comment, v_pattern)
                            /\ ~HasCodeLikeMarker(v_comment)))
    /\ (Validated /\ v_pattern = "STRICT" /\ PassedHedgeAndLength
           /\ MentionsIssue(v_comment) /\ TrimmedLen(v_comment) > 50)
          => Accepted

\* the pattern Foo is mentioned as foo: accepted without any marker
C15_Witness ==
    /\ Accepted
    /\ v_pattern = "Foo"
    /\ v_comment = <<"foo", "w20">>

\* the sentinel is no search pattern: accepted without marker or mention
C15_SentinelWitness ==
    /\ Accepted
    /\ v_pattern = "STRICT"
    /\ v_comment = <<"bug", "w30", "w20">>

----------------------------------------------------------------------------
(* Properties of the parser on malformed and unclassified lines *)

IsFileMarker(line) == StartsWith(line.text, <<"diff --git">>)

IsHunkMarker(line) == StartsWith(line.text, <<"@@">>)

\* the step reads a line that is neither a file boundary nor a hunk header
ReadsBodyLine ==
    /\ Len(dlines') = Len(dlines) + 1
    /\ ~IsFileMarker(dlines'[Len(dlines')])
    /\ ~IsHunkMarker(dlines'[Len(dlines')])

Markers(ls) == {i \in DOMAIN ls : IsFileMarker(ls[i]) \/ IsHunkMarker(ls[i])}

\* the last file boundary or hunk header among the lines
LastMarker(ls) == ls[CHOOSE i \in Markers(ls) : \A j \in Markers(ls) : j <= i]

\* the lines that follow belong to a hunk whose header is malformed (the
\* last "@@" line does not parse) or missing (a file boundary came last)
HeaderlessHunk(ls) ==
    /\ Markers(ls) # {}
    /\ \/ IsFileMarker(LastMarker(ls)) /\ FileRegex(LastMarker(ls)) # None
       \/ IsHunkMarker(LastMarker(ls)) /\ HunkRegex(LastMarker(ls)) = None

\* C16 (as stated): the lines of a hunk whose header is malformed or missing
\* are dropped: reading one of them records nothing in any hunk of any file
\* and adds no legal anchor line.
C16_HeaderlessLinesDropped ==
    [][(ReadsBodyLine /\ HeaderlessHunk(dlines))
          => /\ file_changes' = file_changes
             /\ get_valid_diff_lines(dlines') = get_valid_diff_lines(dlines)]_vars

\* a hunk is open: lines are appended to current_hunk
HunkOpen == current_hunk # None /\ FileTruthy(current_file)

\* the type the line has by the three cases of the claim
ClaimedType(line) ==
    IF StartsWith(line.text, <<"+">>) /\ ~StartsWith(line.text, <<"+", "+", "+">>)
    THEN "+"
    ELSE IF StartsWith(line.text, <<"-">>) /\ ~StartsWith(line.text, <<"-", "-", "-">>)
    THEN "-"
    ELSE " "

\* C17 (as stated): under an open hunk every line is recorded, as Added,
\* Removed or else Context, so that no line of the hunk is left out.
C17_EveryLineClassified ==
    [][(ReadsBodyLine /\ HunkOpen)
          => LET before == current_hunk[1].hunk.lines
                 after == current_hunk'[1].hunk.lines
             IN  /\ Len(after) = Len(before) + 1
                 /\ after[Len(after)].type = ClaimedType(dlines'[Len(dlines')])]_vars

----------------------------------------------------------------------------
(* Properties of the gather and of its searches *)

GatherDone == current_context # None

\* the patterns of the context_requests of the round
Requested ==
    {response[1].context_requests[i].pattern :
        i \in DOMAIN response[1].context_requests}

KindSuffix(kind) ==
    CASE kind = "definitions" -> "_definitions"
      [] kind = "usage" -> "_usage"
      [] kind = "import" -> "_imports"
      [] OTHER -> ""

\* the keys a gather can store for the pattern
KeysOf(pattern) == {ContextKey(pattern, KindSuffix(k)) : k \in SearchKinds}

\* C19: the result of a gather is sparse: a search without matches adds no
\* key, so no key of the result, and none of all_context, maps to an empty
\* evidence bundle, and no file of a bundle has an empty list of matches.
C19_NoEmptyBundle ==
    GatherDone =>
        /\ \A k \in DOMAIN current_context[1] :
              /\ current_context[1][k] # EmptyDict
              /\ \A f \in DOMAIN current_context[1][k] : current_context[1][k][f] # <<>>
        /\ \A k \in DOMAIN all_context : all_context[k] # EmptyDict
        /\ \A pattern \in Requested : \A kind \in SearchKinds :
              SearchIn(repo)[<<pattern, kind>>] = EmptyDict
                 => ContextKey(pattern, KindSuffix(kind)) \notin DOMAIN current_context[1]
        /\ \A pattern \in Patterns \ Requested :
              KeysOf(pattern) \cap DOMAIN current_context[1] = {}

\* foo and bar were requested; foo is found but not imported, bar is not
\* found at all: only keys of foo, and no key foo_imports
C19_Witness ==
    /\ GatherDone
    /\ Requested = {PatFoo, PatBar}
    /\ ContextKey(PatFoo, "") \in DOMAIN current_context[1]
    /\ ContextKey(PatFoo, "_imports") \notin DOMAIN current_context[1]
    /\ KeysOf(PatBar) \cap DOMAIN current_context[1] = {}

\* neither the file nor the command of its extension fails
Healthy(f) == ExtOf(f) \notin repo.bad_ext /\ f \notin repo.bad_file

\* the file is in the bundle stored for the pattern and the search kind
InBundle(f, pattern, kind) ==
    /\ ContextKey(pattern, KindSuffix(kind)) \in DOMAIN current_context[1]
    /\ f \in DOMAIN current_context[1][ContextKey(pattern, KindSuffix(kind))]

Bundle(pattern, kind) == current_context[1][ContextKey(pattern, KindSuffix(kind))]

Restrict(d, K) == [k \in (DOMAIN d) \cap K |-> d[k]]

\* a step that makes a gathering round
GatherStep == iteration' = iteration + 1 /\ current_context' # None

\* the patterns requested in the round the step makes
RequestedNext ==
    {response'[1].context_requests[i].pattern :
        i \in DOMAIN response'[1].context_requests}

\* the patterns requested in the rounds made so far
RequestedEarlier ==
    UNION {{messages[i].requests[j].pattern : j \in DOMAIN messages[i].requests} :
           i \in DOMAIN messages}

----------------------------------------------------------------------------
(* Properties of review_pr: the empty diff, the end of the session *)

\* the diff text holds nothing but whitespace
EmptyOrWhitespace ==
    \A i \in DOMAIN diff : \A j \in DOMAIN diff[i].text : diff[i].text[j] = " "

\* C21: with an empty or whitespace-only diff review_pr returns without a
\* model call, without a context search and without a post to the pull
\* request.
C21_EmptyDiffDoesNothing ==
    EmptyOrWhitespace =>
        /\ pc \in {"get_diff", "returned"}
        /\ calls = <<>>
        /\ posts = <<>>
        /\ messages = <<>>
        /\ all_context = EmptyDict
        /\ final_line_comments = <<>>

\* review_pr has returned on the empty diff
C21_Witness ==
    /\ EmptyOrWhitespace
    /\ pc = "returned"
    /\ max_recursion > 0

\* the summary request was answered with a status of 300 or more
SummaryRequestFailed == \E j \in SummaryPosts : ~posts[j].ok

\* the model ended the loop: its reply had no context requests
EndedByModel ==
    /\ response # None
    /\ ~parse_context_requests(response[1]).raised
    /\ parse_context_requests(response[1]).context_requests = <<>>

\* C22 (as stated): a run with a non-empty diff whose collaborator calls all
\* return reaches the end of the session; the by-model and the forced
\* finalization never both happen, and the final summary is defined when the
\* summary comment is built.
C22_SessionAlwaysEnds ==
    /\ pc = "raised" => (ModelCallRaised \/ SummaryRequestFailed)
    /\ TextCalls <= 1
    /\ EndedByModel => iteration < max_recursion
    /\ pc \in {"post", "post_summary", "returned"} =>
          (~IsBlank(diff) => final_review # None)

----------------------------------------------------------------------------
(* Properties of the parser called more than once *)

\* the legal anchors derived from a parse result
ValidLinesOf(fc) == [f \in DOMAIN fc |-> LineNumbersOf(fc[f], {"+"})]

----------------------------------------------------------------------------
(* Properties of review_pr: the iteration counter, the model calls *)

\* C24: with max_recursion >= 0 the iteration counter stays between 0 and
\* max_recursion, starts at 0 and always equals the number of gathering
\* rounds performed.
C24_IterationCountsGathers ==
    max_recursion >= 0 =>
        /\ 0 <= iteration
        /\ iteration <= max_recursion
        /\ iteration = Gathers
        /\ calls = <<>> => iteration = 0

\* two gathering rounds with a budget of three, then the model ended the loop
C24_Witness ==
    /\ max_recursion = 3
    /\ iteration = 2
    /\ Gathers = 2
    /\ JsonCalls = 3
    /\ pc = "returned"

----------------------------------------------------------------------------
(* Properties of the parser: the hunks of a file, the owner of a line *)

\* the positions of the file-boundary lines the parser recognises
FileBoundaries(ls) ==
    {i \in DOMAIN ls : IsFileMarker(ls[i]) /\ FileRegex(ls[i]) # None}

\* None or the path of the last file boundary before position i
OwnerOf(ls, i) ==
    LET B == {b \in FileBoundaries(ls) : b < i} IN
    IF B = {} THEN None
    ELSE FileRegex(ls[CHOOSE b \in B : \A c \in B : c <= b])

\* the positions of the valid hunk headers that stand under file f
HunkHeaders(ls, f) ==
    {i \in DOMAIN ls :
        /\ IsHunkMarker(ls[i])
        /\ HunkRegex(ls[i]) # None
        /\ OwnerOf(ls, i) = Some(f)}

\* the k-th smallest element of a set of positions
NthOf(S, k) == CHOOSE i \in S : Cardinality({j \in S : j < i}) = k - 1

\* some path has more than one file-boundary line
RepeatedBoundary(ls) ==
    \E i, j \in FileBoundaries(ls) : i < j /\ FileRegex(ls[i]) = FileRegex(ls[j])

\* C25 (as stated): the keys of the parse result are the paths of the file
\* boundaries, and the hunk list of a file holds all hunks of that file in
\* the diff text in the order of their headers, also when the path has more
\* than one file-boundary line.
C25_AllHunksInOrder ==
    /\ DOMAIN file_changes = {FileRegex(dlines[i])[1] : i \in FileBoundaries(dlines)}
    /\ \A f \in DOMAIN file_changes :
          /\ Len(file_changes[f]) = Cardinality(HunkHeaders(dlines, f))
          /\ \A k \in DOMAIN file_changes[f] :
                k <= Cardinality(HunkHeaders(dlines, f)) =>
                   LET h == HunkRegex(dlines[NthOf(HunkHeaders(dlines, f), k)])[1] IN
                   /\ file_changes[f][k].old_start = h.old_start
                   /\ file_changes[f][k].new_start = h.new_start

\* the number of lines recorded in the hunks of a hunk list
RECURSIVE RecordedIn(_)
RecordedIn(hunks) ==
    IF hunks = <<>> THEN 0 ELSE Len(Head(hunks).lines) + RecordedIn(Tail(hunks))

\* the positions of the text lines between the boundary of f and the next
\* boundary that are neither boundary nor hunk header
BodyLinesOf(ls, f) ==
    {i \in DOMAIN ls :
        /\ ~IsFileMarker(ls[i])
        /\ ~IsHunkMarker(ls[i])
        /\ OwnerOf(ls, i) = Some(f)}

\* a body line stands under a file boundary with no valid hunk header
\* between the boundary and the line
OrphanLine(ls) ==
    \E i \in DOMAIN ls :
        /\ ~IsFileMarker(ls[i])
        /\ ~IsHunkMarker(ls[i])
        /\ OwnerOf(ls, i) # None
        /\ LET b == CHOOSE c \in FileBoundaries(ls) :
                       c < i /\ \A d \in FileBoundaries(ls) : d < i => d <= c
           IN ~\E h \in b..i : IsHunkMarker(ls[h]) /\ HunkRegex(ls[h]) # None

\* C26 (as stated): every line recorded under file F comes from a text line
\* between the boundary of F and the next boundary, so F holds no more
\* recorded lines than its part of the text has body lines; lines that
\* follow a new boundary and precede that file's first valid hunk header
\* are not appended to a hunk of the previous file.
C26_LinesStayInTheirFile ==
    \A f \in DOMAIN file_changes :
        RecordedIn(file_changes[f]) <= Cardinality(BodyLinesOf(dlines, f))

----------------------------------------------------------------------------
(* Properties of the comment quality filter: the second validation *)

\* post_review_comments has validated the comment once more
ValidatedAgain == v_again # None

\* C27: a comment accepted in Strict mode is accepted in Normal mode with an
\* empty pattern, so the Normal-mode validation of post_review_comments
\* rejects no comment that passed the filtering of the final answer, Strict
\* or Normal.
C27_SecondValidationKeeps ==
    ValidatedAgain =>
        /\ v_pattern \in {"", "STRICT"}
        /\ Accepted
        /\ v_again = Some(TRUE)

\* a comment that the Strict mode accepted on its code marker and issue
\* word was validated again
C27_Witness ==
    /\ v_pattern = "STRICT"
    /\ Accepted
    /\ v_again = Some(TRUE)
    /\ InText("<tick>", v_comment)
    /\ InText("bug", v_comment)
    /\ TextLen(Strip(v_comment)) <= 50

\* the model calls made so far, in order
ModelCalls == SelectSeq(calls, LAMBDA c : c \in {"openai_json", "openai_text"})

\* C28: one run makes at most max_recursion + 1 model calls, at most one of
\* them is a free-text call, and a free-text call is the last model call of
\* the run.
C28_ModelCallBudget ==
    /\ Len(ModelCalls) <= max_recursion + 1
    /\ Cardinality({i \in DOMAIN ModelCalls : ModelCalls[i] = "openai_text"}) <= 1
    /\ \A i \in DOMAIN ModelCalls :
          ModelCalls[i] = "openai_text" => i = Len(ModelCalls)

\* the budget is used up by three structured calls and one free-text call
C28_Witness ==
    /\ max_recursion = 3
    /\ ModelCalls = <<"openai_json", "openai_json", "openai_json", "openai_text">>
    /\ pc = "returned"

\* the reply asks for context: a dict with needs_context true and a
\* non-empty context_requests list, or a text in which the fallback parser
\* finds a request with a pattern
AsksForContext(reply) ==
    \/ /\ reply.form = "object"
       /\ reply.needs_context
       /\ reply.context_requests # <<>>
    \/ /\ reply.form = "text"
       /\ \E i \in DOMAIN reply.lines : \E j \in DOMAIN reply.lines :
             /\ i < j
             /\ Strip(reply.lines[i]) = <<"CONTEXT_REQUEST:">>
             /\ StartsWith(Strip(reply.lines[j]), <<"- pattern:">>)
             /\ \A k \in (i + 1)..(j - 1) :
                   /\ Strip(reply.lines[k]) # <<"CONTEXT_REQUEST:">>
                   /\ \/ Strip(reply.lines[k]) = <<>>
                      \/ Head(Strip(reply.lines[k])) \in DashAtoms

\* the step performs a gathering round
GatheringRound ==
    /\ calls' = calls \o <<"openai_json", "gather">>
    /\ iteration' = iteration + 1
    /\ pc' = "round"

\* the step finalizes: the loop is left and iteration stays
FinalizingRound ==
    /\ calls' = Append(calls, "openai_json")
    /\ iteration' = iteration
    /\ all_context' = all_context
    /\ pc' \in {"after_loop", "final_call"}

\* C29: a structured round gathers if and only if its reply asks for
\* context; a reply with needs_context true and no requests, and a reply with
\* needs_context false that lists requests, finalize without a gather and
\* without incrementing iteration.
C29_GatherIffRequested ==
    [][ReceivesReply =>
          IF AsksForContext(response'[1]) THEN GatheringRound
          ELSE FinalizingRound]_vars

\* needs_context is true, no request is listed, the review is not empty: the
\* run finalized with a free-text call and without a gather
C29_Witness ==
    /\ response # None
    /\ response[1].form = "object"
    /\ response[1].needs_context
    /\ response[1].context_requests = <<>>
    /\ response[1].review = "R"
    /\ pc = "post"
    /\ iteration = 0
    /\ calls = <<"openai_json", "openai_text">>
    /\ max_recursion > 0

----------------------------------------------------------------------------
(* Properties of review_pr: the comments of the structured replies *)

\* the comments the last structured reply carried
RoundComments ==
    IF response # None /\ response[1].form = "object"
    THEN Range(response[1].line_comments) ELSE {}

\* the comments put in the review request
RequestedComments == UNION {Range(posts[i].comments) : i \in ReviewPosts}

\* C30: the comments of a structured reply are never validated in Strict
\* mode: once post_review_comments has run, such a comment on an Added line
\* that passes Normal validation is in the review request, also when the run
\* ended by budget exhaustion with nothing gathered; Strict mode is applied
\* only to the comments of the forced final free-text answer.
C30_RoundCommentsNeverStrict ==
    /\ InlineStepDone =>
          \A c \in RoundComments :
              (/\ IsAddedAnchor(c.file, c.line)
               /\ validate_comment_quality(c.comment, ""))
                 => c \in RequestedComments
    /\ (final_check # None /\ final_check[1].pattern = "STRICT") =>
          /\ final_check[1].by = "forced"
          /\ iteration >= max_recursion
          /\ LoopCalls[Len(LoopCalls)] = "openai_text"
          /\ TextCalls = 1

\* the budget ran out with nothing gathered and the final answer was
\* filtered in Strict mode; the comment of the last structured reply, which
\* Strict mode would reject, is in the review request
C30_Witness ==
    /\ max_recursion > 0
    /\ iteration >= max_recursion
    /\ all_context = EmptyDict
    /\ final_check # None
    /\ final_check[1].pattern = "STRICT"
    /\ CAddPlain \in RoundComments
    /\ ~validate_comment_quality(CAddPlain.comment, "STRICT")
    /\ CAddPlain \in RequestedComments
    /\ final_line_comments = <<CCtxGood, CAddPlain>>

====
